---------------------------- MODULE Spec2Model ----------------------------
(***************************************************************************)
(* Model of the swing-trader backtesting core: pkg/backtesting/engine.go,  *)
(* pkg/strategy/bb_rsi_strategy.go and the two indicator functions.        *)
(*                                                                         *)
(* Number representation.  The Go code computes in float64; the model      *)
(* computes the same expressions exactly, in fixed point:                  *)
(*   - a rate (TradeFee, Slippage, StopLoss, TakeProfit, PositionSize,     *)
(*     BBStdDev) is an integer count of 1/RD;                              *)
(*   - a close / signal price is an integer;                               *)
(*   - EntryPrice and ExitPrice are in units of 1/RD;                      *)
(*   - capital, proceeds, ProfitLoss, StopLoss and TakeProfit prices are   *)
(*     in units of 1/(RD*RD);                                              *)
(*   - an RSI value is a fraction <<num, den>> with den > 0.               *)
(* A date is the 1-based index of its bar (dates are strictly increasing). *)
(* A Go pointer to a time.Time is a location <<kind, k>> of mem; a Go      *)
(* pointer to a fresh float64 is a one-element sequence, nil is << >>.     *)
(***************************************************************************)
EXTENDS Integers, Sequences, FiniteSets, TLC

\* Longest price series drawn as input.
MaxLen == 5

\* Closes are drawn from 1..MaxPrice.
MaxPrice == 3

\* Number of times Run is called in one behaviour.
MaxRuns == 2

\* Largest indicator period of a direct call of an indicator or of the strategy.
MaxPeriod == 3

\* Denominator of the fixed-point representation of the float64 rates.
RD == 10

RD2 == RD * RD

VARIABLES
    loopVarPerIteration, \* TRUE: range loop variable is per iteration (Go >= 1.22)
    engine,              \* the Engine value: config and strategy
    data,                \* the price series handed to Run (sequence of closes)
    pc,                  \* position of the call: idle, loop, results, done, panic
    run,                 \* number of the current Run call
    signals,             \* signals returned by GenerateSignals
    sigIdx,              \* index of the next signal of the range loop
    openTrades,          \* executeTrades local
    trades,              \* executeTrades local
    availableCapital,    \* executeTrades local
    tradeID,             \* executeTrades local
    mem,                 \* time.Time variables whose address is taken
    result,              \* << >> (nil) or <<BacktestResult>>
    err,                 \* "" (nil) or the error text
    firstOutcome,        \* << >> or <<outcome of the previous Run call>>
    engineId,            \* which Engine object Run is called on
    peer,                \* a second engine whose Run executes concurrently
    calc                 \* the last direct call of a strategy or indicator function

vars == <<loopVarPerIteration, engine, data, pc, run, signals, sigIdx,
          openTrades, trades, availableCapital, tradeID, mem, result, err,
          firstOutcome, engineId, peer, calc>>

-----------------------------------------------------------------------------
(* Helpers *)

Max(a, b) == IF a > b THEN a ELSE b

\* Go's float64 -> int64 conversion truncates toward zero.
Trunc(n, d) == IF n >= 0 THEN n \div d ELSE -((-n) \div d)

RECURSIVE Pow(_, _)
Pow(b, e) == IF e = 0 THEN 1 ELSE b * Pow(b, e - 1)

NilLoc == <<"nil", 0>>

Locs == ({"signal", "param"} \X (0..(MaxLen + 1))) \cup {<<"lastDate", 0>>, NilLoc}

-----------------------------------------------------------------------------
(* pkg/indicators: CalculateRSI *)

\* gains[i] and losses[i] of the bar at 1-based index i >= 2.
Gain(d, i) == IF d[i] - d[i-1] > 0 THEN d[i] - d[i-1] ELSE 0

\* Variant: every change counts as a loss.
Loss_anyChange(d, i) == IF d[i] - d[i-1] > 0 THEN d[i] - d[i-1] ELSE -(d[i] - d[i-1])

Loss(d, i) == IF d[i] - d[i-1] > 0 THEN 0 ELSE -(d[i] - d[i-1])

RECURSIVE SumGain(_, _, _)
SumGain(d, lo, hi) == IF lo > hi THEN 0 ELSE SumGain(d, lo, hi - 1) + Gain(d, hi)

RECURSIVE SumLoss(_, _, _)
SumLoss(d, lo, hi) == IF lo > hi THEN 0 ELSE SumLoss(d, lo, hi - 1) + Loss(d, hi)

\* avgGain and avgLoss at 1-based index i >= period+1, as the fractions
\* G / period^m and L / period^m: the simple average of the first `period`
\* changes at i = period+1, Wilder smoothing afterwards.
RECURSIVE RSIAverages(_, _, _)
RSIAverages(d, period, i) ==
    IF i = period + 1
    THEN [G |-> SumGain(d, 2, period + 1), L |-> SumLoss(d, 2, period + 1), m |-> 1]
    ELSE LET prev == RSIAverages(d, period, i - 1)
         IN  [G |-> prev.G * (period - 1) + Gain(d, i) * Pow(period, prev.m),
              L |-> prev.L * (period - 1) + Loss(d, i) * Pow(period, prev.m),
              m |-> prev.m + 1]

\* 100 when avgLoss == 0, else 100 - 100/(1 + avgGain/avgLoss) = 100*G/(G+L).
RSIFromAverages(a) == IF a.L = 0 THEN <<100, 1>> ELSE <<100 * a.G, a.G + a.L>>

ZeroRSI == <<0, 1>>

\* The float64 NaN: no comparison with it holds.
NaNRSI == <<0, 0>>

\* Variant: no early return on a series shorter than period+1.
RSIInsufficient_never(d, period) == FALSE

RSIInsufficient(d, period) == Len(d) < period + 1

\* The returned slice, or a panic when rsiValues[period] is out of range
\* (a negative period).  With period 0 both averages are 0/0, a NaN that
\* every later value inherits.
CalculateRSI(d, period) ==
    IF RSIInsufficient(d, period)
    THEN [panic |-> FALSE, values |-> [i \in 1..Len(d) |-> ZeroRSI]]
    ELSE IF (period + 1) \notin 1..Len(d)
    THEN [panic |-> TRUE, values |-> << >>]
    ELSE IF period = 0
    THEN [panic |-> FALSE, values |-> [i \in 1..Len(d) |-> NaNRSI]]
    ELSE [panic |-> FALSE,
          values |-> [i \in 1..Len(d) |->
                        IF i < period + 1 THEN ZeroRSI
                        ELSE RSIFromAverages(RSIAverages(d, period, i))]]

\* rsi < threshold and rsi > threshold on the fraction.
RSILess(r, t) == r[1] < t * r[2]

RSIGreater(r, t) == r[1] > t * r[2]

-----------------------------------------------------------------------------
(* pkg/indicators: CalculateBollingerBands *)

RECURSIVE WindowSum(_, _, _)
WindowSum(d, i, n) == IF n <= 0 THEN 0 ELSE d[i] + WindowSum(d, i - 1, n - 1)

RECURSIVE WindowSqSum(_, _, _)
WindowSqSum(d, i, n) == IF n <= 0 THEN 0 ELSE d[i] * d[i] + WindowSqSum(d, i - 1, n - 1)

\* One band per bar.  A computed band keeps sum and sqSum of its window:
\* Middle = sum/period, variance = sqSum/period - Middle^2,
\* Upper/Lower = Middle +/- (mult/RD) * sqrt(variance).
\* The zero value types.BollingerBands{} has zero = TRUE.
CalculateBollingerBands(d, period, stdDevMultiplier) ==
    [i \in 1..Len(d) |->
        IF i - 1 >= period - 1
        THEN [zero |-> FALSE, sum |-> WindowSum(d, i, period),
              sqSum |-> WindowSqSum(d, i, period), period |-> period,
              mult |-> stdDevMultiplier]
        ELSE [zero |-> TRUE, sum |-> 0, sqSum |-> 0, period |-> period,
              mult |-> stdDevMultiplier]]

\* close < bb.Lower, for mult >= 0:
\*   close < mean - k*sd  <=>  mean - close > 0  /\  k^2 * var < (mean - close)^2
\* with both sides multiplied by (period * RD)^2.
\* A negative period leaves the window empty (all three bands 0), period 0
\* makes the mean 0/0 (all three bands NaN).
BelowLower(close, bb) ==
    IF bb.zero \/ bb.period < 0 THEN close < 0
    ELSE IF bb.period = 0 THEN FALSE
    ELSE LET dev == bb.sum - bb.period * close
             pvar == bb.period * bb.sqSum - bb.sum * bb.sum
         IN  dev > 0 /\ bb.mult * bb.mult * pvar < RD2 * dev * dev

-----------------------------------------------------------------------------
(* CalculateBollingerBands in rounded arithmetic.                            *)
(*                                                                           *)
(* The definitions above evaluate the expressions of the source exactly,     *)
(* which is what float64 does on the small whole-number closes of the        *)
(* engine's runs.  On closes that are decimal fractions every float64        *)
(* operation rounds.  Here each operation of the source is followed by       *)
(* round-to-nearest-even to a mantissa of FloatBits bits.  float64 has 53;   *)
(* the binary expansion of 1/10 has period 4, so a mantissa of 5 bits        *)
(* (53 = 5 mod 4) rounds the tenths the way float64 does.                    *)

FloatBits == 5

\* A float is NaN or the value m * 2^e with 2^(FloatBits-1) <= |m| < 2^FloatBits
\* (m = 0, e = 0 for zero).
NaN == [nan |-> TRUE, m |-> 0, e |-> 0]

Float(m, e) == [nan |-> FALSE, m |-> m, e |-> e]

\* The float nearest to (n / d) * 2^e for n >= 0, d > 0, ties to even.
RECURSIVE RoundPos(_, _, _)
RoundPos(n, d, e) ==
    IF n = 0 THEN Float(0, 0)
    ELSE IF n >= d * Pow(2, FloatBits) THEN RoundPos(n, 2 * d, e + 1)
    ELSE IF n < d * Pow(2, FloatBits - 1) THEN RoundPos(2 * n, d, e - 1)
    ELSE LET q == n \div d
             r == n % d
             m == IF 2 * r > d \/ (2 * r = d /\ q % 2 = 1) THEN q + 1 ELSE q
         IN  IF m = Pow(2, FloatBits) THEN Float(Pow(2, FloatBits - 1), e + 1)
             ELSE Float(m, e)

FRound(n, d, e) ==
    IF n >= 0 THEN RoundPos(n, d, e)
    ELSE LET r == RoundPos(-n, d, e) IN Float(-r.m, r.e)

FNeg(a) == IF a.nan THEN NaN ELSE Float(-a.m, a.e)

\* a + b
FAdd(a, b) ==
    IF a.nan \/ b.nan THEN NaN
    ELSE LET lo == IF a.e < b.e THEN a.e ELSE b.e
         IN  FRound(a.m * Pow(2, a.e - lo) + b.m * Pow(2, b.e - lo), 1, lo)

\* a - b
FSub(a, b) == FAdd(a, FNeg(b))

\* a * b
FMul(a, b) == IF a.nan \/ b.nan THEN NaN ELSE FRound(a.m * b.m, 1, a.e + b.e)

\* a / float64(k) for an int k > 0
FDivInt(a, k) == IF a.nan THEN NaN ELSE FRound(a.m, k, a.e)

\* math.Sqrt: NaN for a negative argument, else the correctly rounded root.
\* The mantissa is scaled to N = m * 2^k with the exponent left even, so
\* that the integer root s of N has FloatBits+1 bits.
FSqrt(a) ==
    IF a.nan \/ a.m < 0 THEN NaN
    ELSE IF a.m = 0 THEN a
    ELSE LET k == IF (a.e - (FloatBits + 1)) % 2 = 0 THEN FloatBits + 1
                  ELSE FloatBits + 2
             N == a.m * Pow(2, k)
             s == CHOOSE x \in Pow(2, FloatBits)..(Pow(2, FloatBits + 1) - 1) :
                     x * x <= N /\ N < (x + 1) * (x + 1)
             q == s \div 2
             m == IF s % 2 = 1 /\ (s * s # N \/ q % 2 = 1) THEN q + 1 ELSE q
         IN  FRound(m, 1, ((a.e - k) \div 2) + 1)

\* a <= b; false when either is NaN.
FLeq(a, b) ==
    /\ ~a.nan /\ ~b.nan
    /\ LET lo == IF a.e < b.e THEN a.e ELSE b.e
       IN  a.m * Pow(2, a.e - lo) <= b.m * Pow(2, b.e - lo)

\* a / b for b # 0
FDiv(a, b) ==
    IF a.nan \/ b.nan THEN NaN
    ELSE IF b.m > 0 THEN FRound(a.m, b.m, a.e - b.e)
    ELSE FRound(-a.m, -b.m, a.e - b.e)

\* int64(a): truncation toward zero.
FTrunc(a) ==
    IF a.e >= 0 THEN a.m * Pow(2, a.e) ELSE Trunc(a.m, Pow(2, -a.e))

\* float64(k) of an int k
FFromInt(k) == FRound(k, 1, 0)

\* strconv.ParseFloat of the closes c/RD of a series of tenths.
ParseCloses(d) == [i \in 1..Len(d) |-> FRound(d[i], RD, 0)]

\* sum and sqSum after j iterations of the inner loop at bar i.
RECURSIVE WindowSumF(_, _, _)
WindowSumF(d, i, j) ==
    IF j <= 0 THEN Float(0, 0)
    ELSE FAdd(WindowSumF(d, i, j - 1), d[i - (j - 1)])

RECURSIVE WindowSqSumF(_, _, _)
WindowSqSumF(d, i, j) ==
    IF j <= 0 THEN Float(0, 0)
    ELSE FAdd(WindowSqSumF(d, i, j - 1), FMul(d[i - (j - 1)], d[i - (j - 1)]))

\* CalculateBollingerBands on float closes d, for period >= 1.
BollingerBandsRounded(d, period, stdDevMultiplier) ==
    [i \in 1..Len(d) |->
        IF i - 1 >= period - 1
        THEN LET sum == WindowSumF(d, i, period)
                 sqSum == WindowSqSumF(d, i, period)
                 mean == FDivInt(sum, period)
                 variance == FSub(FDivInt(sqSum, period), FMul(mean, mean))
                 stdDev == FSqrt(variance)
                 mult == FRound(stdDevMultiplier, RD, 0)
             IN  [Upper |-> FAdd(mean, FMul(mult, stdDev)),
                  Middle |-> mean,
                  Lower |-> FSub(mean, FMul(mult, stdDev))]
        ELSE [Upper |-> Float(0, 0), Middle |-> Float(0, 0), Lower |-> Float(0, 0)]]

-----------------------------------------------------------------------------
(* pkg/strategy: BBRSIStrategy *)

NewBBRSIStrategy(strategyConfig) == [config |-> strategyConfig]

\* Variant: the SELL rule is tried before the BUY rule.
evaluatePosition_sellFirst(s, date, close, bb, rsi) ==
    IF RSIGreater(rsi, s.config.SellThreshold)
    THEN [Date |-> date, Price |-> close, Type |-> "SELL",
          Reason |-> "RSI overbought"]
    ELSE IF BelowLower(close, bb) /\ RSILess(rsi, s.config.BuyThreshold)
    THEN [Date |-> date, Price |-> close, Type |-> "BUY",
          Reason |-> "Price below lower BB and RSI oversold"]
    ELSE [Date |-> date, Price |-> close, Type |-> "HOLD", Reason |-> ""]

\* The Signal of one bar: BUY first, then SELL, else HOLD.
evaluatePosition(s, date, close, bb, rsi) ==
    IF BelowLower(close, bb) /\ RSILess(rsi, s.config.BuyThreshold)
    THEN [Date |-> date, Price |-> close, Type |-> "BUY",
          Reason |-> "Price below lower BB and RSI oversold"]
    ELSE IF RSIGreater(rsi, s.config.SellThreshold)
    THEN [Date |-> date, Price |-> close, Type |-> "SELL",
          Reason |-> "RSI overbought"]
    ELSE [Date |-> date, Price |-> close, Type |-> "HOLD", Reason |-> ""]

\* Variant: the loop starts at BBPeriod whatever RSIPeriod is.
StartIndex_bbOnly(s) == s.config.BBPeriod

\* startIndex of the evaluation loop (0-based, as in the source).
StartIndex(s) ==
    IF s.config.RSIPeriod > s.config.BBPeriod THEN s.config.RSIPeriod
    ELSE s.config.BBPeriod

\* The loop of GenerateSignals from 1-based bar i on: non-HOLD signals in bar order.
RECURSIVE SignalsFrom(_, _, _, _, _)
SignalsFrom(s, d, bb, rsi, i) ==
    IF i > Len(d) THEN << >>
    ELSE LET signal == evaluatePosition(s, i, d[i], bb[i], rsi[i])
         IN  (IF signal.Type # "HOLD" THEN <<signal>> ELSE << >>)
                 \o SignalsFrom(s, d, bb, rsi, i + 1)

TooShort(s, d) == Len(d) < s.config.BBPeriod \/ Len(d) < s.config.RSIPeriod

GenerateSignals(s, d) ==
    IF TooShort(s, d)
    THEN [panic |-> FALSE, signals |-> << >>]
    ELSE LET bollingerBands == CalculateBollingerBands(d, s.config.BBPeriod, s.config.BBStdDev)
             rsiValues == CalculateRSI(d, s.config.RSIPeriod)
         IN  IF rsiValues.panic \/ (StartIndex(s) < 0 /\ Len(d) > 0)
             THEN [panic |-> TRUE, signals |-> << >>]
             ELSE [panic |-> FALSE,
                   signals |-> SignalsFrom(s, d, bollingerBands, rsiValues.values,
                                           StartIndex(s) + 1)]

\* Variant: no shares once the capital has fallen below the initial capital
\* by more than riskConfig.MaxDrawdown.
CalculatePositionSize_limited(s, capital, currentPrice, riskConfig) ==
    LET riskAmount == capital * riskConfig.PositionSize
        riskPerShare == currentPrice * s.config.StopLoss
    IN  IF riskPerShare <= 0 THEN 0
        ELSE IF (s.config.InitialCapital - capital) * RD
                    > s.config.InitialCapital * riskConfig.MaxDrawdown THEN 0
        ELSE LET shares == Trunc(riskAmount, riskPerShare * RD2)
             IN  IF shares * currentPrice * RD2 > capital
                 THEN Trunc(capital, currentPrice * RD2)
                 ELSE shares

\* availableCapital in 1/RD2, currentPrice a close; the share count.
\*   riskAmount   = availableCapital * PositionSize
\*   riskPerShare = currentPrice - currentPrice*(1 - StopLoss)
CalculatePositionSize(s, capital, currentPrice, riskConfig) ==
    LET riskAmount == capital * riskConfig.PositionSize            \* 1/(RD2*RD)
        riskPerShare == currentPrice * s.config.StopLoss           \* 1/RD
    IN  IF riskPerShare <= 0 THEN 0
        ELSE LET shares == Trunc(riskAmount, riskPerShare * RD2)
             IN  IF shares * currentPrice * RD2 > capital
                 THEN Trunc(capital, currentPrice * RD2)
                 ELSE shares

\* Variant: the stop is placed above the entry price.
GetStopLossPrice_above(s, entryPrice) == entryPrice * (RD + s.config.StopLoss)

\* entryPrice in 1/RD, result in 1/RD2.
GetStopLossPrice(s, entryPrice) == entryPrice * (RD - s.config.StopLoss)

GetTakeProfitPrice(s, entryPrice) == entryPrice * (RD + s.config.TakeProfit)

\* CalculatePositionSize in rounded arithmetic, on float arguments: the
\* capital, the price, riskConfig.PositionSize and config.StopLoss.
PositionSizeRounded(capital, currentPrice, positionSize, stopLoss) ==
    LET riskAmount == FMul(capital, positionSize)
        stopLossPrice == FMul(currentPrice, FSub(FFromInt(1), stopLoss))
        riskPerShare == FSub(currentPrice, stopLossPrice)
    IN  IF FLeq(riskPerShare, Float(0, 0)) THEN 0
        ELSE LET shares == FTrunc(FDiv(riskAmount, riskPerShare))
                 totalCost == FMul(FFromInt(shares), currentPrice)
             IN  IF ~FLeq(totalCost, capital)
                 THEN FTrunc(FDiv(capital, currentPrice))
                 ELSE shares

-----------------------------------------------------------------------------
(* pkg/backtesting: Engine *)

NewEngine(config) ==
    [config |-> config, strategy |-> NewBBRSIStrategy(config.StrategyConfig)]

\* Address of the range variable `signal` in iteration k of the loop of
\* executeTrades: one variable per iteration from Go 1.22 on, one variable
\* for the whole loop before.
LoopVarLoc(k) == IF loopVarPerIteration THEN <<"signal", k>> ELSE <<"signal", 0>>

\* Address of the parameter `signal` of the k-th call of checkStopLossAndTakeProfit.
ParamLoc(k) == <<"param", k>>

LastDateLoc == <<"lastDate", 0>>

\* Variant: the capital is kept in the engine from one Run to the next.
StartingCapital_carried(e) == IF run = 1 THEN e.config.InitialCapital ELSE availableCapital

\* availableCapital at the start of executeTrades.
StartingCapital(e) == e.config.InitialCapital

\* Variant: a BUY is honoured whatever is open.
MayOpen_always(ot) == TRUE

\* BUY while no trade is open.
MayOpen(ot) == Len(ot) = 0

\* Variant: the entry is not checked against the capital.
CanAfford_always(totalCost, capital) == TRUE

\* Variant: any capital at all is taken to cover the entry.
CanAfford_anyCapital(totalCost, capital) == capital > 0

CanAfford(totalCost, capital) == totalCost <= capital

\* The BUY case of the switch; st = [openTrades, trades, availableCapital, tradeID].
BuyBranch(e, st, signal) ==
    IF ~MayOpen(st.openTrades) THEN st
    ELSE LET shares == CalculatePositionSize(e.strategy, st.availableCapital,
                                             signal.Price, e.config.RiskManagementConfig)
         IN  IF shares <= 0 THEN st
             ELSE LET entryPrice == signal.Price * (RD + e.config.Slippage)
                      tradeFee == shares * entryPrice * e.config.TradeFee
                      totalCost == shares * entryPrice * RD + tradeFee
                      trade == [ID |-> <<"T", st.tradeID>>,
                                EntryDate |-> signal.Date,
                                ExitDate |-> NilLoc,
                                EntryPrice |-> entryPrice,
                                ExitPrice |-> << >>,
                                Quantity |-> shares,
                                ProfitLoss |-> 0,
                                Status |-> "open",
                                StopLoss |-> GetStopLossPrice(e.strategy, entryPrice),
                                TakeProfit |-> GetTakeProfitPrice(e.strategy, entryPrice)]
                  IN  IF CanAfford(totalCost, st.availableCapital)
                      THEN [openTrades |-> Append(st.openTrades, trade),
                            trades |-> st.trades,
                            availableCapital |-> st.availableCapital - totalCost,
                            tradeID |-> st.tradeID + 1]
                      ELSE st

\* Variant: the SELL case charges no fee.
SellClose_feeFree(e, trade, signal, dateLoc) ==
    LET exitPrice == signal.Price * (RD - e.config.Slippage)
        proceeds == trade.Quantity * exitPrice * RD
    IN  [trade |-> [trade EXCEPT !.ExitDate = dateLoc,
                                 !.ExitPrice = <<exitPrice>>,
                                 !.Status = "closed",
                                 !.ProfitLoss = proceeds - trade.Quantity * trade.EntryPrice * RD],
         proceeds |-> proceeds]

\* The body of the loop of the SELL case for one open trade.
SellClose(e, trade, signal, dateLoc) ==
    LET exitPrice == signal.Price * (RD - e.config.Slippage)
        tradeFee == trade.Quantity * exitPrice * e.config.TradeFee
        proceeds == trade.Quantity * exitPrice * RD - tradeFee
    IN  [trade |-> [trade EXCEPT !.ExitDate = dateLoc,
                                 !.ExitPrice = <<exitPrice>>,
                                 !.Status = "closed",
                                 !.ProfitLoss = proceeds - trade.Quantity * trade.EntryPrice * RD],
         proceeds |-> proceeds]

\* The SELL case of the switch: every open trade is closed and appended.
RECURSIVE SellFrom(_, _, _, _, _)
SellFrom(e, st, signal, dateLoc, i) ==
    IF i > Len(st.openTrades) THEN [st EXCEPT !.openTrades = << >>]
    ELSE LET c == SellClose(e, st.openTrades[i], signal, dateLoc)
         IN  SellFrom(e, [st EXCEPT !.availableCapital = @ + c.proceeds,
                                    !.trades = Append(@, c.trade)],
                      signal, dateLoc, i + 1)

SellBranch(e, st, signal, dateLoc) == SellFrom(e, st, signal, dateLoc, 1)

StopLossHit(trade, signal) == signal.Price * RD2 <= trade.StopLoss

\* Variant: the take-profit arm is never taken.
TakeProfitHit_never(trade, signal) == FALSE

TakeProfitHit(trade, signal) == signal.Price * RD2 >= trade.TakeProfit

\* Variant: the stop-loss arm closes the trade without crediting the proceeds.
StopClose_nocredit(e, trade, signal, dateLoc) ==
    LET exitPrice == signal.Price * (RD - e.config.Slippage)
        tradeFee == trade.Quantity * exitPrice * e.config.TradeFee
        proceeds == trade.Quantity * exitPrice * RD - tradeFee
    IN  [trade |-> [trade EXCEPT !.ExitDate = dateLoc,
                                 !.ExitPrice = <<exitPrice>>,
                                 !.Status = "closed",
                                 !.ProfitLoss = proceeds - trade.Quantity * trade.EntryPrice * RD],
         proceeds |-> 0]

\* The stop-loss arm of checkStopLossAndTakeProfit.
StopClose(e, trade, signal, dateLoc) ==
    LET exitPrice == signal.Price * (RD - e.config.Slippage)
        tradeFee == trade.Quantity * exitPrice * e.config.TradeFee
        proceeds == trade.Quantity * exitPrice * RD - tradeFee
    IN  [trade |-> [trade EXCEPT !.ExitDate = dateLoc,
                                 !.ExitPrice = <<exitPrice>>,
                                 !.Status = "closed",
                                 !.ProfitLoss = proceeds - trade.Quantity * trade.EntryPrice * RD],
         proceeds |-> proceeds]

\* The take-profit arm of checkStopLossAndTakeProfit.
TakeProfitClose(e, trade, signal, dateLoc) ==
    LET exitPrice == signal.Price * (RD - e.config.Slippage)
        tradeFee == trade.Quantity * exitPrice * e.config.TradeFee
        proceeds == trade.Quantity * exitPrice * RD - tradeFee
    IN  [trade |-> [trade EXCEPT !.ExitDate = dateLoc,
                                 !.ExitPrice = <<exitPrice>>,
                                 !.Status = "closed",
                                 !.ProfitLoss = proceeds - trade.Quantity * trade.EntryPrice * RD],
         proceeds |-> proceeds]

\* checkStopLossAndTakeProfit over openTrades from index i on.
RECURSIVE CheckFrom(_, _, _, _, _, _)
CheckFrom(e, st, ot, signal, dateLoc, i) ==
    IF i > Len(ot) THEN st
    ELSE IF StopLossHit(ot[i], signal)
    THEN LET c == StopClose(e, ot[i], signal, dateLoc)
         IN  CheckFrom(e, [st EXCEPT !.availableCapital = @ + c.proceeds,
                                     !.trades = Append(@, c.trade)],
                       ot, signal, dateLoc, i + 1)
    ELSE IF TakeProfitHit(ot[i], signal)
    THEN LET c == TakeProfitClose(e, ot[i], signal, dateLoc)
         IN  CheckFrom(e, [st EXCEPT !.availableCapital = @ + c.proceeds,
                                     !.trades = Append(@, c.trade)],
                       ot, signal, dateLoc, i + 1)
    ELSE CheckFrom(e, [st EXCEPT !.openTrades = Append(@, ot[i])],
                   ot, signal, dateLoc, i + 1)

checkStopLossAndTakeProfit(e, st, signal, dateLoc) ==
    CheckFrom(e, [st EXCEPT !.openTrades = << >>], st.openTrades, signal, dateLoc, 1)

\* lastPrice and lastDate of the block after the loop.
LastPrice(d) == d[Len(d)]

\* Variant: the forced close is dated at the last signal.
LastDate_lastSignal(d) == signals[Len(signals)].Date

LastDate(d) == Len(d)

\* Variant: the block after the loop appends the trade as it is.
FinalClose_leftOpen(e, trade, d, dateLoc) == trade

FinalClose(e, trade, d, dateLoc) ==
    LET exitPrice == LastPrice(d) * (RD - e.config.Slippage)
        tradeFee == trade.Quantity * exitPrice * e.config.TradeFee
        proceeds == trade.Quantity * exitPrice * RD - tradeFee
    IN  [trade EXCEPT !.ExitDate = dateLoc,
                      !.ExitPrice = <<exitPrice>>,
                      !.Status = "closed",
                      !.ProfitLoss = proceeds - trade.Quantity * trade.EntryPrice * RD]

\* The trades appended by the block after the loop, in openTrades order.
RECURSIVE FinalCloseFrom(_, _, _, _, _)
FinalCloseFrom(e, ot, d, dateLoc, i) ==
    IF i > Len(ot) THEN << >>
    ELSE <<FinalClose(e, ot[i], d, dateLoc)>> \o FinalCloseFrom(e, ot, d, dateLoc, i + 1)

\* The locals of executeTrades at its start.
StartLocals(e) ==
    [openTrades |-> << >>, trades |-> << >>,
     availableCapital |-> StartingCapital(e), tradeID |-> 1,
     mem |-> [l \in Locs |-> 0]]

\* One iteration of the loop of executeTrades, the k-th, as a function of the
\* locals loc = [openTrades, trades, availableCapital, tradeID, mem]: the
\* switch on signal.Type, then the stop-loss / take-profit check.
LoopBody(e, loc, signal, k) ==
    LET st == [openTrades |-> loc.openTrades, trades |-> loc.trades,
               availableCapital |-> loc.availableCapital, tradeID |-> loc.tradeID]
        afterSwitch == IF signal.Type = "BUY" THEN BuyBranch(e, st, signal)
                       ELSE IF signal.Type = "SELL"
                       THEN SellBranch(e, st, signal, LoopVarLoc(k))
                       ELSE st
        after == checkStopLossAndTakeProfit(e, afterSwitch, signal, ParamLoc(k))
    IN  [openTrades |-> after.openTrades, trades |-> after.trades,
         availableCapital |-> after.availableCapital, tradeID |-> after.tradeID,
         mem |-> [loc.mem EXCEPT ![LoopVarLoc(k)] = signal.Date,
                                 ![ParamLoc(k)] = signal.Date]]

\* The loop of executeTrades from the k-th signal on.
RECURSIVE LoopFrom(_, _, _, _)
LoopFrom(e, loc, sigs, k) ==
    IF k > Len(sigs) THEN loc
    ELSE LoopFrom(e, LoopBody(e, loc, sigs[k], k), sigs, k + 1)

\* The block after the loop.
AfterLoop(e, loc, d) ==
    IF Len(loc.openTrades) > 0 /\ Len(d) > 0
    THEN LET closed == FinalCloseFrom(e, loc.openTrades, d, LastDateLoc, 1)
         IN  [loc EXCEPT !.openTrades = closed,
                         !.trades = @ \o closed,
                         !.mem = [@ EXCEPT ![LastDateLoc] = LastDate(d)]]
    ELSE loc

\* executeTrades as a function: the locals when it returns.
executeTrades(e, d, sigs) == AfterLoop(e, LoopFrom(e, StartLocals(e), sigs, 1), d)

-----------------------------------------------------------------------------
(* pkg/backtesting: calculateResults *)

\* Fractions <<num, den>>; den = 0 stands for the float64 quotient by zero.
Frac(n, d) == <<n, d>>

\* a > b for fractions with positive denominators.
FracGreater(a, b) == a[1] * b[2] > b[1] * a[2]

Abs(x) == IF x < 0 THEN -x ELSE x

\* The accumulation loop over the trades, from index i on.
RECURSIVE TotalsFrom(_, _, _)
TotalsFrom(ts, i, acc) ==
    IF i > Len(ts) THEN acc
    ELSE LET pl == ts[i].ProfitLoss
         IN  TotalsFrom(ts, i + 1,
                 IF pl > 0
                 THEN [acc EXCEPT !.totalPL = @ + pl, !.winningTrades = @ + 1,
                                  !.totalWinAmount = @ + pl]
                 ELSE IF pl < 0
                 THEN [acc EXCEPT !.totalPL = @ + pl, !.losingTrades = @ + 1,
                                  !.totalLossAmount = @ + Abs(pl)]
                 ELSE [acc EXCEPT !.totalPL = @ + pl])

\* Variant: a trade that is not a win is counted as a loss.
Totals_zeroLoses(ts) ==
    LET t == TotalsFrom(ts, 1, [totalPL |-> 0, winningTrades |-> 0, losingTrades |-> 0,
                                totalWinAmount |-> 0, totalLossAmount |-> 0])
    IN  [t EXCEPT !.losingTrades = Len(ts) - t.winningTrades]

Totals(ts) ==
    TotalsFrom(ts, 1, [totalPL |-> 0, winningTrades |-> 0, losingTrades |-> 0,
                       totalWinAmount |-> 0, totalLossAmount |-> 0])

\* The loop of calculateMaxDrawdown; a zero peak gives the quotient 0/0,
\* which compares false, so the maximum is kept.
RECURSIVE DrawdownFrom(_, _, _, _, _)
DrawdownFrom(ts, i, peak, runningCapital, maxDrawdown) ==
    IF i > Len(ts) THEN maxDrawdown
    ELSE LET running == runningCapital + ts[i].ProfitLoss
             newPeak == IF running > peak THEN running ELSE peak
             drawdown == Frac((newPeak - running) * 100, newPeak)
         IN  DrawdownFrom(ts, i + 1, newPeak, running,
                          IF newPeak > 0 /\ FracGreater(drawdown, maxDrawdown)
                          THEN drawdown ELSE maxDrawdown)

calculateMaxDrawdown(e, ts) ==
    IF Len(ts) = 0 THEN Frac(0, 1)
    ELSE DrawdownFrom(ts, 1, e.config.InitialCapital, e.config.InitialCapital, Frac(0, 1))

\* Variant: the final capital is the capital tracked by executeTrades.
FinalCapital_tracked(e, totalPL) == availableCapital

FinalCapital(e, totalPL) == e.config.InitialCapital + totalPL

\* AnnualizedReturn (math.Pow with a real exponent), SharpeRatio and
\* MaxDrawdownDuration are left out of the record.
calculateResults(e, ts, d) ==
    LET t == Totals(ts)
    IN  [Trades |-> ts,
         InitialCapital |-> e.config.InitialCapital,
         StartDate |-> 1,
         EndDate |-> Len(d),
         TotalTrades |-> Len(ts),
         WinningTrades |-> t.winningTrades,
         LosingTrades |-> t.losingTrades,
         TotalProfitLoss |-> t.totalPL,
         FinalCapital |-> FinalCapital(e, t.totalPL),
         WinRate |-> IF Len(ts) > 0 THEN Frac(t.winningTrades * 100, Len(ts)) ELSE Frac(0, 1),
         AverageWin |-> IF t.winningTrades > 0
                        THEN Frac(t.totalWinAmount, t.winningTrades) ELSE Frac(0, 1),
         AverageLoss |-> IF t.losingTrades > 0
                         THEN Frac(t.totalLossAmount, t.losingTrades) ELSE Frac(0, 1),
         TotalReturn |-> Frac((FinalCapital(e, t.totalPL) - e.config.InitialCapital) * 100,
                              e.config.InitialCapital),
         MaxDrawdown |-> calculateMaxDrawdown(e, ts)]

-----------------------------------------------------------------------------
(* Inputs *)

\* The default shape of main.go's configuration at model scale: capital 20,
\* fee and slippage 10%, stop-loss 20%, take-profit 50%, 10% of capital at
\* risk, RSI thresholds 30/70, both periods 2, band multiplier 0.5.
BaseConfig ==
    [InitialCapital |-> 20 * RD2,
     TradeFee |-> 1,
     Slippage |-> 1,
     StrategyConfig |-> [BuyThreshold |-> 30, SellThreshold |-> 70,
                         StopLoss |-> 2, TakeProfit |-> 5,
                         InitialCapital |-> 20 * RD2,
                         RSIPeriod |-> 2, BBPeriod |-> 2, BBStdDev |-> 5],
     RiskManagementConfig |-> [MaxDrawdown |-> 2, PositionSize |-> 1]]

Configs ==
    { BaseConfig,
      \* no fee, no slippage
      [BaseConfig EXCEPT !.TradeFee = 0, !.Slippage = 0],
      \* nothing to invest
      [BaseConfig EXCEPT !.InitialCapital = 0],
      \* the whole capital at risk: sizing is clamped to capital/price
      [BaseConfig EXCEPT !.RiskManagementConfig.PositionSize = RD],
      \* fee and slippage of 100%
      [BaseConfig EXCEPT !.TradeFee = RD, !.Slippage = RD],
      \* overlapping thresholds: an RSI between 70 and 80 meets both rules
      [BaseConfig EXCEPT !.StrategyConfig.BuyThreshold = 80],
      \* longer windows
      [BaseConfig EXCEPT !.StrategyConfig.BBPeriod = 3,
                         !.StrategyConfig.RSIPeriod = 3,
                         !.StrategyConfig.BBStdDev = RD],
      \* a drawdown limit of 0%, slippage 20%, and thresholds 80/60 that
      \* overlap on the RSI values of falling bars
      [BaseConfig EXCEPT !.RiskManagementConfig.MaxDrawdown = 0,
                         !.Slippage = 2,
                         !.StrategyConfig.BuyThreshold = 80,
                         !.StrategyConfig.SellThreshold = 60] }

PriceSeries == UNION { [1..n -> 1..MaxPrice] : n \in 0..MaxLen }

\* No second engine is running.
NoPeer ==
    [pc |-> "none", engine |-> NewEngine(BaseConfig), signals |-> << >>,
     sigIdx |-> 1, loc |-> StartLocals(NewEngine(BaseConfig)),
     result |-> << >>, err |-> ""]

\* No function has been called directly.
NoCall == [op |-> "none"]

-----------------------------------------------------------------------------
(* The state machine *)

Init ==
    /\ loopVarPerIteration \in BOOLEAN
    /\ \E config \in Configs : engine = NewEngine(config)
    /\ engineId = 1
    /\ data \in PriceSeries
    /\ pc = "idle"
    /\ run = 1
    /\ signals = << >>
    /\ sigIdx = 1
    /\ openTrades = << >>
    /\ trades = << >>
    /\ availableCapital = 0
    /\ tradeID = 1
    /\ mem = [l \in Locs |-> 0]
    /\ result = << >>
    /\ err = ""
    /\ firstOutcome = << >>
    /\ peer = NoPeer
    /\ calc = NoCall

\* Variant: Run does not reject an empty series.
NoData_never(d) == FALSE

NoData(d) == Len(d) = 0

\* Run on an empty series: the error return.
RunEmpty ==
    /\ pc = "idle"
    /\ NoData(data)
    /\ pc' = "done"
    /\ result' = << >>
    /\ err' = "no data provided for backtesting"
    /\ UNCHANGED <<loopVarPerIteration, engine, data, run, signals, sigIdx, openTrades,
                   trades, availableCapital, tradeID, mem, firstOutcome, engineId, peer, calc>>

\* Run on a non-empty series: GenerateSignals, then the start of executeTrades.
RunStart ==
    /\ pc = "idle"
    /\ ~NoData(data)
    /\ LET g == GenerateSignals(engine.strategy, data)
       IN  IF g.panic
           THEN /\ pc' = "panic"
                /\ UNCHANGED <<signals, sigIdx, openTrades, trades, availableCapital,
                               tradeID, mem>>
           ELSE /\ pc' = "loop"
                /\ signals' = g.signals
                /\ sigIdx' = 1
                /\ openTrades' = << >>
                /\ trades' = << >>
                /\ availableCapital' = StartingCapital(engine)
                /\ tradeID' = 1
                /\ mem' = [l \in Locs |-> 0]
    /\ UNCHANGED <<loopVarPerIteration, engine, data, run, result, err, firstOutcome,
                   engineId, peer, calc>>

Locals == [openTrades |-> openTrades, trades |-> trades,
           availableCapital |-> availableCapital, tradeID |-> tradeID]

\* One iteration of the loop of executeTrades: the switch, then the
\* stop-loss / take-profit check.
Iterate(afterSwitch) ==
    LET signal == signals[sigIdx]
        st == checkStopLossAndTakeProfit(engine, afterSwitch, signal, ParamLoc(sigIdx))
    IN  /\ openTrades' = st.openTrades
        /\ trades' = st.trades
        /\ availableCapital' = st.availableCapital
        /\ tradeID' = st.tradeID
        /\ mem' = [mem EXCEPT ![LoopVarLoc(sigIdx)] = signal.Date,
                              ![ParamLoc(sigIdx)] = signal.Date]
        /\ sigIdx' = sigIdx + 1
        /\ UNCHANGED <<loopVarPerIteration, engine, data, pc, run, signals, result, err,
                       firstOutcome, engineId, peer, calc>>

ProcessBuy ==
    /\ pc = "loop"
    /\ sigIdx <= Len(signals)
    /\ signals[sigIdx].Type = "BUY"
    /\ Iterate(BuyBranch(engine, Locals, signals[sigIdx]))

ProcessSell ==
    /\ pc = "loop"
    /\ sigIdx <= Len(signals)
    /\ signals[sigIdx].Type = "SELL"
    /\ Iterate(SellBranch(engine, Locals, signals[sigIdx], LoopVarLoc(sigIdx)))

\* The block after the loop: remaining open trades are closed at the last bar.
CloseRemaining ==
    /\ pc = "loop"
    /\ sigIdx > Len(signals)
    /\ IF Len(openTrades) > 0 /\ Len(data) > 0
       THEN LET closed == FinalCloseFrom(engine, openTrades, data, LastDateLoc, 1)
            IN  /\ openTrades' = closed
                /\ trades' = trades \o closed
                /\ mem' = [mem EXCEPT ![LastDateLoc] = LastDate(data)]
       ELSE UNCHANGED <<openTrades, trades, mem>>
    /\ pc' = "results"
    /\ UNCHANGED <<loopVarPerIteration, engine, data, run, signals, sigIdx,
                   availableCapital, tradeID, result, err, firstOutcome, engineId, peer, calc>>

\* executeTrades returned a nil error: calculateResults and the return of Run.
\* data[0] panics on an empty series.
Results ==
    /\ pc = "results"
    /\ IF Len(data) = 0
       THEN pc' = "panic" /\ UNCHANGED <<result, err>>
       ELSE /\ pc' = "done"
            /\ result' = <<calculateResults(engine, trades, data)>>
            /\ err' = ""
    /\ UNCHANGED <<loopVarPerIteration, engine, data, run, signals, sigIdx, openTrades,
                   trades, availableCapital, tradeID, mem, firstOutcome, engineId, peer, calc>>

\* A trade as a reader sees it in memory m: ExitDate dereferenced.
TradeView(t, m) == [t EXCEPT !.ExitDate = m[t.ExitDate]]

TradesView(ts, m) == [i \in 1..Len(ts) |-> TradeView(ts[i], m)]

Outcome ==
    [err |-> err,
     result |-> IF result = << >> THEN << >>
                ELSE <<[result[1] EXCEPT !.Trades = TradesView(@, mem)]>>]

\* Run as a function of the engine and the series: what a call returns when
\* nothing else executes.
Run(e, d) ==
    IF NoData(d)
    THEN [err |-> "no data provided for backtesting", result |-> << >>]
    ELSE LET g == GenerateSignals(e.strategy, d)
         IN  IF g.panic THEN [err |-> "panic", result |-> << >>]
             ELSE LET loc == executeTrades(e, d, g.signals)
                  IN  [err |-> "",
                       result |-> <<[calculateResults(e, loc.trades, d)
                                        EXCEPT !.Trades = TradesView(@, loc.mem)]>>]

\* The caller keeps the outcome and calls Run again on the same engine.
RunAgain ==
    /\ pc = "done"
    /\ run < MaxRuns
    /\ firstOutcome' = <<Outcome>>
    /\ run' = run + 1
    /\ pc' = "idle"
    /\ result' = << >>
    /\ err' = ""
    /\ UNCHANGED <<loopVarPerIteration, engine, data, signals, sigIdx, openTrades,
                   trades, availableCapital, tradeID, mem, engineId, peer, calc>>

\* The caller keeps the outcome and calls Run on a new engine of the same config.
RunOnNewEngine ==
    /\ pc = "done"
    /\ run < MaxRuns
    /\ firstOutcome' = <<Outcome>>
    /\ run' = run + 1
    /\ pc' = "idle"
    /\ result' = << >>
    /\ err' = ""
    /\ engine' = NewEngine(engine.config)
    /\ engineId' = engineId + 1
    /\ UNCHANGED <<loopVarPerIteration, data, signals, sigIdx, openTrades,
                   trades, availableCapital, tradeID, mem, peer, calc>>

-----------------------------------------------------------------------------
(* A second engine, built by NewEngine from its own config, whose Run        *)
(* executes concurrently on the same price series (a parameter sweep).       *)

mainVars == <<loopVarPerIteration, engine, data, pc, run, signals, sigIdx,
              openTrades, trades, availableCapital, tradeID, mem, result, err,
              firstOutcome, engineId>>

\* Variant: availableCapital is one package-level variable of all engines.
PeerLocals_shared(p) == [p.loc EXCEPT !.availableCapital = availableCapital]

\* The locals of the second engine's executeTrades.
PeerLocals(p) == p.loc

\* Run of the second engine up to the start of the loop of executeTrades.
PeerStart ==
    /\ peer.pc = "idle"
    /\ peer' = IF NoData(data)
               THEN [peer EXCEPT !.pc = "done",
                                 !.err = "no data provided for backtesting"]
               ELSE LET g == GenerateSignals(peer.engine.strategy, data)
                    IN  IF g.panic THEN [peer EXCEPT !.pc = "panic"]
                        ELSE [peer EXCEPT !.pc = "loop",
                                          !.signals = g.signals,
                                          !.sigIdx = 1,
                                          !.loc = StartLocals(peer.engine)]
    /\ UNCHANGED <<mainVars, calc>>

\* One iteration of the loop of the second engine's executeTrades.
PeerStep ==
    /\ peer.pc = "loop"
    /\ peer.sigIdx <= Len(peer.signals)
    /\ peer' = [peer EXCEPT !.loc = LoopBody(peer.engine, PeerLocals(peer),
                                             peer.signals[peer.sigIdx], peer.sigIdx),
                            !.sigIdx = @ + 1]
    /\ UNCHANGED <<mainVars, calc>>

\* The block after the loop of the second engine's executeTrades.
PeerClose ==
    /\ peer.pc = "loop"
    /\ peer.sigIdx > Len(peer.signals)
    /\ peer' = [peer EXCEPT !.loc = AfterLoop(peer.engine, PeerLocals(peer), data),
                            !.pc = "results"]
    /\ UNCHANGED <<mainVars, calc>>

\* calculateResults and the return of the second engine's Run.
PeerResults ==
    /\ peer.pc = "results"
    /\ peer' = IF Len(data) = 0 THEN [peer EXCEPT !.pc = "panic"]
               ELSE [peer EXCEPT !.pc = "done",
                                 !.result = <<calculateResults(peer.engine,
                                                               peer.loc.trades, data)>>,
                                 !.err = ""]
    /\ UNCHANGED <<mainVars, calc>>

PeerOutcome ==
    [err |-> peer.err,
     result |-> IF peer.result = << >> THEN << >>
                ELSE <<[peer.result[1] EXCEPT !.Trades = TradesView(@, peer.loc.mem)]>>]

-----------------------------------------------------------------------------

Next ==
    \/ RunEmpty
    \/ RunStart
    \/ ProcessBuy
    \/ ProcessSell
    \/ CloseRemaining
    \/ Results
    \/ RunAgain
    \/ RunOnNewEngine

Spec == Init /\ [][Next]_vars

\* Configurations of the two concurrent engines.
ConcConfigs ==
    { BaseConfig,
      [BaseConfig EXCEPT !.StrategyConfig.BuyThreshold = 80] }

ConcInit ==
    /\ loopVarPerIteration \in BOOLEAN
    /\ \E config \in ConcConfigs : engine = NewEngine(config)
    /\ engineId = 1
    /\ data \in PriceSeries
    /\ pc = "idle"
    /\ run = 1
    /\ signals = << >>
    /\ sigIdx = 1
    /\ openTrades = << >>
    /\ trades = << >>
    /\ availableCapital = 0
    /\ tradeID = 1
    /\ mem = [l \in Locs |-> 0]
    /\ result = << >>
    /\ err = ""
    /\ firstOutcome = << >>
    /\ \E config \in ConcConfigs :
          peer = [NoPeer EXCEPT !.pc = "idle", !.engine = NewEngine(config),
                                !.loc = StartLocals(NewEngine(config))]
    /\ calc = NoCall

\* Two Run calls, one per engine, under every interleaving of their steps.
ConcNext ==
    \/ RunEmpty
    \/ RunStart
    \/ ProcessBuy
    \/ ProcessSell
    \/ CloseRemaining
    \/ Results
    \/ PeerStart
    \/ PeerStep
    \/ PeerClose
    \/ PeerResults

ConcSpec == ConcInit /\ [][ConcNext]_vars

-----------------------------------------------------------------------------
(* Direct calls of the strategy and of the indicator functions on a series. *)

\* Strategy configurations of the direct calls: the two periods vary
\* independently, with two band multipliers and two pairs of thresholds.
CallConfigs ==
    { [BaseConfig.StrategyConfig EXCEPT !.BBPeriod = b, !.RSIPeriod = r,
                                        !.BBStdDev = k,
                                        !.BuyThreshold = t[1],
                                        !.SellThreshold = t[2]] :
        b \in 1..MaxPeriod, r \in 1..MaxPeriod, k \in {5, RD},
        t \in {<<30, 70>>, <<80, 60>>} }

\* Periods handed to the indicator functions: any int.
Periods == (-1)..MaxPeriod

\* Band multipliers, in 1/RD.
Multipliers == {0, 5, 2 * RD}

CallInit ==
    /\ loopVarPerIteration = TRUE
    /\ engine = NewEngine(BaseConfig)
    /\ engineId = 1
    /\ data \in PriceSeries
    /\ pc = "idle"
    /\ run = 1
    /\ signals = << >>
    /\ sigIdx = 1
    /\ openTrades = << >>
    /\ trades = << >>
    /\ availableCapital = 0
    /\ tradeID = 1
    /\ mem = [l \in Locs |-> 0]
    /\ result = << >>
    /\ err = ""
    /\ firstOutcome = << >>
    /\ peer = NoPeer
    /\ calc = NoCall

CallGenerateSignals ==
    /\ calc = NoCall
    /\ \E config \in CallConfigs :
          LET s == NewBBRSIStrategy(config)
          IN  calc' = [op |-> "GenerateSignals", s |-> s, ret |-> GenerateSignals(s, data)]
    /\ UNCHANGED <<mainVars, peer>>

CallCalculateRSI ==
    /\ calc = NoCall
    /\ \E period \in Periods :
          calc' = [op |-> "CalculateRSI", period |-> period,
                   ret |-> CalculateRSI(data, period)]
    /\ UNCHANGED <<mainVars, peer>>

CallCalculateBollingerBands ==
    /\ calc = NoCall
    /\ \E period \in Periods, mult \in Multipliers :
          calc' = [op |-> "CalculateBollingerBands", period |-> period, mult |-> mult,
                   ret |-> CalculateBollingerBands(data, period, mult)]
    /\ UNCHANGED <<mainVars, peer>>

\* CalculateBollingerBands on the series read as closes of data[i]/RD.
CallCalculateBollingerBandsRounded ==
    /\ calc = NoCall
    /\ \E period \in 1..MaxPeriod, mult \in Multipliers :
          calc' = [op |-> "CalculateBollingerBandsRounded", period |-> period,
                   mult |-> mult,
                   ret |-> BollingerBandsRounded(ParseCloses(data), period, mult)]
    /\ UNCHANGED <<mainVars, peer>>

CallNext ==
    \/ CallGenerateSignals
    \/ CallCalculateRSI
    \/ CallCalculateBollingerBands
    \/ CallCalculateBollingerBandsRounded

CallSpec == CallInit /\ [][CallNext]_vars

-----------------------------------------------------------------------------
(* Direct calls of CalculatePositionSize. *)

\* Capitals of the calls, in 1/RD2: nothing, a few cents, amounts that a
\* price divides and amounts that it does not.
Capitals == {0, 7, 50, RD2, 250, 3 * RD2, 20 * RD2}

\* riskConfig.PositionSize, in 1/RD: any float64 the flag accepts.
PositionSizes == {-1, 0, 1, 3, RD}

\* config.StopLoss, in 1/RD.
StopLosses == {-1, 0, 2, 3, RD}

\* Capitals of the calls in rounded arithmetic, in whole units; with prices in
\* 1..MaxPrice + 1, position sizes of 10%, 30% and 100% and a stop-loss of
\* 30%, rounding to FloatBits bits returns the share counts of float64.
RoundedCapitals == 0..8

RoundedPositionSizes == {1, 3, RD}

RoundedStopLosses == {3}

SizingInit ==
    /\ loopVarPerIteration = TRUE
    /\ engine = NewEngine(BaseConfig)
    /\ engineId = 1
    /\ data = << >>
    /\ pc = "idle"
    /\ run = 1
    /\ signals = << >>
    /\ sigIdx = 1
    /\ openTrades = << >>
    /\ trades = << >>
    /\ availableCapital = 0
    /\ tradeID = 1
    /\ mem = [l \in Locs |-> 0]
    /\ result = << >>
    /\ err = ""
    /\ firstOutcome = << >>
    /\ peer = NoPeer
    /\ calc = NoCall

CallCalculatePositionSize ==
    /\ calc = NoCall
    /\ \E capital \in Capitals, price \in 1..MaxPrice,
          positionSize \in PositionSizes, stopLoss \in StopLosses :
          LET s == NewBBRSIStrategy([BaseConfig.StrategyConfig EXCEPT !.StopLoss = stopLoss])
              riskConfig == [BaseConfig.RiskManagementConfig
                                EXCEPT !.PositionSize = positionSize]
          IN  calc' = [op |-> "CalculatePositionSize", capital |-> capital,
                       price |-> price, positionSize |-> positionSize,
                       stopLoss |-> stopLoss,
                       ret |-> CalculatePositionSize(s, capital, price, riskConfig)]
    /\ UNCHANGED <<mainVars, peer>>

\* CalculatePositionSize on the float64 values of the arguments.
CallCalculatePositionSizeRounded ==
    /\ calc = NoCall
    /\ \E capital \in RoundedCapitals, price \in 1..MaxPrice,
          positionSize \in RoundedPositionSizes, stopLoss \in RoundedStopLosses :
          calc' = [op |-> "CalculatePositionSizeRounded", capital |-> capital * RD2,
                   price |-> price, positionSize |-> positionSize,
                   stopLoss |-> stopLoss,
                   ret |-> PositionSizeRounded(FFromInt(capital), FFromInt(price),
                                               FRound(positionSize, RD, 0),
                                               FRound(stopLoss, RD, 0))]
    /\ UNCHANGED <<mainVars, peer>>

SizingNext ==
    \/ CallCalculatePositionSize
    \/ CallCalculatePositionSizeRounded

SizingSpec == SizingInit /\ [][SizingNext]_vars

-----------------------------------------------------------------------------
(* One Run on a longer series: two bars at the highest close, which the     *)
(* indicators of period 2 consume, then up to MaxLen bars.                  *)

WarmUp == <<MaxPrice, MaxPrice>>

LongSeries == { WarmUp \o d : d \in PriceSeries }

LongRunConfigs ==
    { \* thresholds 80/60: a fall after a rise gives a BUY, a rise after a
      \* fall a SELL
      [BaseConfig EXCEPT !.StrategyConfig.BuyThreshold = 80,
                         !.StrategyConfig.SellThreshold = 60],
      \* slippage 30% with the stop-loss of 20%
      [BaseConfig EXCEPT !.Slippage = 3] }

LongRunInit ==
    /\ loopVarPerIteration \in BOOLEAN
    /\ \E config \in LongRunConfigs : engine = NewEngine(config)
    /\ engineId = 1
    /\ data \in LongSeries
    /\ pc = "idle"
    /\ run = 1
    /\ signals = << >>
    /\ sigIdx = 1
    /\ openTrades = << >>
    /\ trades = << >>
    /\ availableCapital = 0
    /\ tradeID = 1
    /\ mem = [l \in Locs |-> 0]
    /\ result = << >>
    /\ err = ""
    /\ firstOutcome = << >>
    /\ peer = NoPeer
    /\ calc = NoCall

LongRunNext ==
    \/ RunStart
    \/ ProcessBuy
    \/ ProcessSell
    \/ CloseRemaining
    \/ Results

LongRunSpec == LongRunInit /\ [][LongRunNext]_vars

-----------------------------------------------------------------------------
(* Properties *)

\* The signal of the iteration that has just completed.
LastSignal == signals[sigIdx - 1]

SignalProcessed == pc = "loop" /\ sigIdx > 1

\* The next step processes a BUY signal while a position is open.
BuyWhileOpen ==
    /\ pc = "loop"
    /\ sigIdx <= Len(signals)
    /\ signals[sigIdx].Type = "BUY"
    /\ Len(openTrades) = 1

\* Proceeds of closing trade t at close price p (SELL formula), in 1/RD2.
ExpectedExitPrice(p) == p * (RD - engine.config.Slippage)

ExpectedProceeds(t, p) ==
    t.Quantity * ExpectedExitPrice(p) * RD
        - t.Quantity * ExpectedExitPrice(p) * engine.config.TradeFee

\* C1: in executeTrades the open-position slot never holds two trades: after
\* each signal (and in every other state) at most one trade is open.
C1_AtMostOneOpen == Len(openTrades) <= 1

\* C1 witness: a BUY signal was processed while an earlier position was open,
\* and that position is still the only one.
C1_Witness ==
    /\ SignalProcessed
    /\ LastSignal.Type = "BUY"
    /\ Len(openTrades) = 1
    /\ openTrades[1].EntryDate < LastSignal.Date

\* C2 as stated: the whole processing of a BUY signal that arrives while a
\* position is open opens no second position and leaves the capital unchanged.
C2_Original ==
    [][BuyWhileOpen =>
          /\ availableCapital' = availableCapital
          /\ tradeID' = tradeID
          /\ Len(openTrades') <= 1]_vars

\* C2 amended: a BUY signal that arrives while a position is open opens no
\* second position and consumes no trade ID; the capital is unchanged unless
\* the signal's price is at or below the stop-loss or at or above the
\* take-profit of the open position, in which case that position is closed
\* (one trade appended, slot empty) and the capital grows by its proceeds.
C2_BuyWhileOpen ==
    [][BuyWhileOpen =>
          LET t == openTrades[1]
              p == signals[sigIdx].Price
          IN  /\ tradeID' = tradeID
              /\ IF p * RD2 <= t.StopLoss \/ p * RD2 >= t.TakeProfit
                 THEN /\ openTrades' = << >>
                      /\ Len(trades') = Len(trades) + 1
                      /\ trades'[Len(trades')].ID = t.ID
                      /\ availableCapital' = availableCapital + ExpectedProceeds(t, p)
                 ELSE /\ openTrades' = openTrades
                      /\ trades' = trades
                      /\ availableCapital' = availableCapital]_vars

\* C2 witness: a BUY signal was processed while a position was open, and its
\* price closed that position through the stop-loss / take-profit check.
C2_Witness ==
    /\ SignalProcessed
    /\ LastSignal.Type = "BUY"
    /\ Len(openTrades) = 0
    /\ Len(trades) > 0
    /\ trades[Len(trades)].ExitDate = ParamLoc(sigIdx - 1)
    /\ trades[Len(trades)].EntryDate < LastSignal.Date
    /\ availableCapital > 0

\* Bar b reaches the stop-loss or the take-profit of trade t.
BarHits(t, b) == data[b] * RD2 <= t.StopLoss \/ data[b] * RD2 >= t.TakeProfit

\* The last bar that lies strictly before the point the loop has reached:
\* the bar of the signal just processed, or, after the last signal, the bar
\* before the one at which the remaining position is force-closed.
ElapsedBar ==
    IF sigIdx > Len(signals) THEN Len(data) - 1
    ELSE IF sigIdx > 1 THEN LastSignal.Date ELSE 0

\* C3: a position that is open has met no bar after its entry whose close is
\* at or below its stop-loss or at or above its take-profit (it would have
\* been closed on the first such bar, HOLD bars included).
C3_MonitoredEveryBar ==
    (pc = "loop" /\ Len(openTrades) = 1) =>
        \A b \in (openTrades[1].EntryDate + 1)..ElapsedBar : ~BarHits(openTrades[1], b)

\* C4: a position still open after the last signal is force-closed exactly
\* once, with the SELL formula on the last bar's close, dated at the last
\* bar, status closed, as the last element of the trade list; and Run
\* returns that list.
C4_ForcedClose ==
    [][/\ (pc = "loop" /\ pc' = "results" /\ Len(openTrades) > 0) =>
             LET o == openTrades[1]
                 t == trades'[Len(trades')]
                 lastClose == data[Len(data)]
             IN  /\ Len(trades') = Len(trades) + 1
                 /\ SubSeq(trades', 1, Len(trades)) = trades
                 /\ t.ID = o.ID /\ t.EntryDate = o.EntryDate /\ t.Quantity = o.Quantity
                 /\ t.ExitPrice = <<lastClose * (RD - engine.config.Slippage)>>
                 /\ t.ProfitLoss = ExpectedProceeds(o, lastClose)
                                      - o.Quantity * o.EntryPrice * RD
                 /\ mem'[t.ExitDate] = Len(data)
                 /\ t.Status = "closed"
       /\ (pc = "results" /\ pc' = "done") =>
             /\ TradesView(result'[1].Trades, mem') = TradesView(trades, mem)
             /\ \A i \in 1..Len(trades) : trades[i].Status = "closed"]_vars

\* C4 witness: Run has returned a list whose last trade was force-closed at
\* the last bar, a bar later than the last signal.
C4_Witness ==
    /\ pc = "done"
    /\ result # << >>
    /\ Len(result[1].Trades) > 0
    /\ result[1].Trades[Len(result[1].Trades)].ExitDate = LastDateLoc
    /\ Len(signals) > 0
    /\ signals[Len(signals)].Date < Len(data)

\* C5: on an empty series Run returns an error and a nil result, and neither
\* generates signals nor executes trades.
C5_EmptySeries ==
    Len(data) = 0 =>
        /\ pc \in {"idle", "done"}
        /\ pc = "done" => (err # "" /\ result = << >>)

\* C5 witness: Run has returned on an empty series.
C5_Witness == pc = "done" /\ Len(data) = 0 /\ err # ""

\* How far the current call of Run has got.
Progress ==
    CASE pc = "idle" -> 0
      [] pc = "loop" -> sigIdx
      [] pc = "results" -> 2 * (Len(data) + 2)
      [] OTHER -> 3 * (Len(data) + 2)

C7_CapitalNonNegative == availableCapital >= 0

\* C7 witness: after an earlier trade was closed, a second BUY was filled
\* and paid for out of the remaining capital.
C7_Witness ==
    /\ SignalProcessed
    /\ Len(trades) >= 1
    /\ Len(openTrades) = 1
    /\ openTrades[1].EntryDate = LastSignal.Date
    /\ availableCapital >= 0
    /\ availableCapital < engine.config.InitialCapital

\* Sum of profitLoss over a trade list, last trade first.
RECURSIVE SumProfitLoss(_)
SumProfitLoss(ts) ==
    IF Len(ts) = 0 THEN 0
    ELSE ts[Len(ts)].ProfitLoss + SumProfitLoss(SubSeq(ts, 1, Len(ts) - 1))

\* C8: in every BacktestResult FinalCapital is InitialCapital plus the sum of
\* profitLoss over result.Trades, and TotalProfitLoss is that sum.
C8_FinalCapital ==
    (pc = "done" /\ result # << >>) =>
        /\ result[1].TotalProfitLoss = SumProfitLoss(result[1].Trades)
        /\ result[1].FinalCapital =
               result[1].InitialCapital + SumProfitLoss(result[1].Trades)
        /\ result[1].InitialCapital = engine.config.InitialCapital

\* C8 witness: a result with a winning and a losing trade.
C8_Witness ==
    /\ pc = "done"
    /\ result # << >>
    /\ \E i, j \in 1..Len(result[1].Trades) :
          result[1].Trades[i].ProfitLoss > 0 /\ result[1].Trades[j].ProfitLoss < 0

C10_Idempotent ==
    (pc = "done" /\ firstOutcome # << >>) => Outcome = firstOutcome[1]

\* C10 witness: the second Run has returned a result with trades, the first
\* having left capital different from the initial capital behind.
C10_Witness ==
    /\ pc = "done"
    /\ run = 2
    /\ firstOutcome # << >>
    /\ result # << >>
    /\ Len(result[1].Trades) > 0
    /\ availableCapital # engine.config.InitialCapital

\* The locals of the first engine's executeTrades.
mainLocals == <<openTrades, trades, availableCapital, tradeID, mem>>

\* C11: when two engines run concurrently on the same series, under every
\* interleaving of their steps, each Run returns the trade list and the
\* statistics that Run returns on its own for that engine, and no step of
\* one run changes the capital, the open trades, the trade list or the
\* returned result of the other.
C11_ConcurrentRuns ==
    /\ []((pc = "done" /\ peer.pc = "done") =>
            /\ Outcome = Run(engine, data)
            /\ PeerOutcome = Run(peer.engine, data))
    /\ [][peer' # peer => <<mainLocals, result, err>>' = <<mainLocals, result, err>>]_vars
    /\ [][<<mainLocals, result, err>>' # <<mainLocals, result, err>> => peer' = peer]_vars

\* C11 witness: both runs have returned, each with trades, after steps in
\* which both had a position open at the same time, and their results differ.
C11_Witness ==
    /\ pc = "done"
    /\ peer.pc = "done"
    /\ result # << >> /\ peer.result # << >>
    /\ Len(result[1].Trades) > 0
    /\ Len(peer.result[1].Trades) > 0
    /\ Outcome # PeerOutcome

\* Values of RiskManagementConfig.MaxDrawdown: 0%, 20%, 100%.
DrawdownLimits == {0, 2, RD}

WithMaxDrawdown(e, m) ==
    NewEngine([e.config EXCEPT !.RiskManagementConfig.MaxDrawdown = m])

\* The next step processes a BUY signal while no position is open.
BuyWhileFlat ==
    /\ pc = "loop"
    /\ sigIdx <= Len(signals)
    /\ signals[sigIdx].Type = "BUY"
    /\ Len(openTrades) = 0

\* Share count, entry price (1/RD) and total cost (1/RD2) of a BUY at close
\* price p with capital c, by the formulas of the BUY rule.
ExpectedShares(p, c) ==
    CalculatePositionSize(engine.strategy, c, p, engine.config.RiskManagementConfig)

ExpectedEntryPrice(p) == p * (RD + engine.config.Slippage)

ExpectedCost(p, c) ==
    ExpectedShares(p, c) * ExpectedEntryPrice(p) * RD
        + ExpectedShares(p, c) * ExpectedEntryPrice(p) * engine.config.TradeFee

\* The drawdown realised by the completed trades exceeds the configured limit.
DrawdownExceeded ==
    FracGreater(calculateMaxDrawdown(engine, trades),
                Frac(engine.config.RiskManagementConfig.MaxDrawdown * 100, RD))

\* C12: the result of the first Run of an engine is the result for every
\* other value of RiskManagementConfig.MaxDrawdown, and in every run a BUY
\* signal met while flat with a positive, affordable share count is filled
\* whatever has been lost so far.
C12_DrawdownNotEnforced ==
    /\ []((pc = "done" /\ run = 1) =>
             \A m \in DrawdownLimits : Run(WithMaxDrawdown(engine, m), data) = Outcome)
    /\ [][(/\ BuyWhileFlat
           /\ ExpectedShares(signals[sigIdx].Price, availableCapital) > 0
           /\ ExpectedCost(signals[sigIdx].Price, availableCapital) <= availableCapital)
              => tradeID' = tradeID + 1]_vars

\* C12 witness: a BUY signal has been filled although the drawdown realised
\* by the earlier trades exceeds the configured limit.
C12_Witness ==
    /\ SignalProcessed
    /\ LastSignal.Type = "BUY"
    /\ Len(openTrades) = 1
    /\ openTrades[1].EntryDate = LastSignal.Date
    /\ Len(trades) > 0
    /\ DrawdownExceeded

-----------------------------------------------------------------------------
(* Properties of the direct calls *)

SignalsCalled == calc.op = "GenerateSignals"

\* The indicator series of the strategy of the call.
CallBands ==
    CalculateBollingerBands(data, calc.s.config.BBPeriod, calc.s.config.BBStdDev)

CallRSI == CalculateRSI(data, calc.s.config.RSIPeriod).values

\* 1-based bars the strategy evaluates: 0-based index >= max(BBPeriod, RSIPeriod).
EvaluatedBars ==
    (Max(calc.s.config.BBPeriod, calc.s.config.RSIPeriod) + 1)..Len(data)

BuyRule(i) ==
    BelowLower(data[i], CallBands[i]) /\ RSILess(CallRSI[i], calc.s.config.BuyThreshold)

SellRule(i) == RSIGreater(CallRSI[i], calc.s.config.SellThreshold)

\* The verdict of the rules in priority order.
RuleType(i) == IF BuyRule(i) THEN "BUY" ELSE IF SellRule(i) THEN "SELL" ELSE "HOLD"

\* C13: the signals GenerateSignals returns are exactly the evaluated bars
\* whose verdict is BUY or SELL, BUY taking priority over SELL, in bar
\* order, each with its bar's date, its bar's close as price and the verdict
\* as type.
C13_SignalPriority ==
    SignalsCalled =>
        LET sigs == calc.ret.signals
        IN  /\ ~calc.ret.panic
            /\ \A k \in 1..Len(sigs) :
                  /\ sigs[k].Type \in {"BUY", "SELL"}
                  /\ sigs[k].Date \in EvaluatedBars
                  /\ sigs[k].Price = data[sigs[k].Date]
                  /\ sigs[k].Type = RuleType(sigs[k].Date)
                  /\ k > 1 => sigs[k - 1].Date < sigs[k].Date
            /\ \A i \in EvaluatedBars :
                  RuleType(i) # "HOLD" => \E k \in 1..Len(sigs) : sigs[k].Date = i

\* C13 witness: a returned BUY signal on a bar that meets the SELL rule too,
\* followed by a SELL signal.
C13_Witness ==
    /\ SignalsCalled
    /\ \E k \in 1..Len(calc.ret.signals) :
          /\ calc.ret.signals[k].Type = "BUY"
          /\ SellRule(calc.ret.signals[k].Date)
          /\ k < Len(calc.ret.signals)
          /\ calc.ret.signals[k + 1].Type = "SELL"

\* C14: GenerateSignals returns no signal on a series shorter than
\* max(BBPeriod, RSIPeriod); no signal lies on a bar of index below that
\* maximum; and on every bar of index at least that maximum the band is a
\* computed one (index >= BBPeriod-1) and the RSI value is a computed one
\* (index >= RSIPeriod, series long enough for CalculateRSI).
C14_WarmUp ==
    SignalsCalled =>
        LET sigs == calc.ret.signals
            c == calc.s.config
        IN  /\ Len(data) < Max(c.BBPeriod, c.RSIPeriod) => sigs = << >>
            /\ \A k \in 1..Len(sigs) :
                  sigs[k].Date - 1 >= Max(c.BBPeriod, c.RSIPeriod)
            /\ \A i \in EvaluatedBars :
                  /\ i - 1 >= c.BBPeriod - 1
                  /\ ~CallBands[i].zero
                  /\ i - 1 >= c.RSIPeriod
                  /\ ~RSIInsufficient(data, c.RSIPeriod)
                  /\ CallRSI[i] = RSIFromAverages(RSIAverages(data, c.RSIPeriod, i))

\* C14 witness: periods that differ, and a signal on the first evaluated bar.
C14_Witness ==
    /\ SignalsCalled
    /\ calc.s.config.RSIPeriod > calc.s.config.BBPeriod
    /\ Len(calc.ret.signals) > 0
    /\ calc.ret.signals[1].Date - 1 = calc.s.config.RSIPeriod

\* C15: CalculateRSI and CalculateBollingerBands return, for every series
\* and every period, exactly one value per bar and never fail; the RSI
\* entries at indices < period are 0 and all are 0 on a series shorter than
\* period+1; the bands at indices < period-1 are the zero value.
C15_IndicatorLengths ==
    /\ calc.op = "CalculateRSI" =>
          /\ ~calc.ret.panic
          /\ Len(calc.ret.values) = Len(data)
          /\ \A i \in 1..Len(calc.ret.values) :
                (i - 1 < calc.period \/ Len(data) < calc.period + 1)
                    => calc.ret.values[i] = ZeroRSI
    /\ calc.op = "CalculateBollingerBands" =>
          /\ Len(calc.ret) = Len(data)
          /\ \A i \in 1..Len(calc.ret) : i - 1 < calc.period - 1 => calc.ret[i].zero

\* C16: every band CalculateBollingerBands computes (index >= period-1)
\* has lower <= middle <= upper.
C16_BandOrder ==
    calc.op = "CalculateBollingerBandsRounded" =>
        \A i \in calc.period..Len(calc.ret) :
            /\ FLeq(calc.ret[i].Lower, calc.ret[i].Middle)
            /\ FLeq(calc.ret[i].Middle, calc.ret[i].Upper)

StrictlyIncreasing(d) == \A i \in 2..Len(d) : d[i - 1] < d[i]

\* C17: on a strictly increasing series of at least period+1 bars
\* CalculateRSI returns exactly 100 at every index >= period.
C17_IncreasingRSI ==
    (/\ calc.op = "CalculateRSI"
     /\ calc.period >= 1
     /\ StrictlyIncreasing(data)
     /\ Len(data) >= calc.period + 1) =>
        /\ ~calc.ret.panic
        /\ \A i \in (calc.period + 1)..Len(data) :
              /\ calc.ret.values[i][2] > 0
              /\ calc.ret.values[i][1] = 100 * calc.ret.values[i][2]

\* C17 witness: a strictly increasing series long enough for a smoothed
\* value after the first one.
C17_Witness ==
    /\ calc.op = "CalculateRSI"
    /\ calc.period >= 1
    /\ StrictlyIncreasing(data)
    /\ Len(data) >= calc.period + 2
    /\ calc.ret.values[Len(data)] = <<100, 1>>

-----------------------------------------------------------------------------
(* Properties of the BUY and SELL cases *)

\* The trade the step has opened: in the slot, or, when the check that ends
\* the step has closed it again, the last completed trade.
OpenedTrade == IF Len(openTrades') > 0 THEN openTrades'[1] ELSE trades'[Len(trades')]

\* C18: a BUY signal met while flat with a positive share count whose total
\* cost is within the capital opens a position with the next trade ID,
\* entry price = signal price * (1 + Slippage), quantity = the share count,
\* stop = entry * (1 - StopLoss), target = entry * (1 + TakeProfit), and
\* takes shares*entry + shares*entry*TradeFee off the capital.
C18_BuyFill ==
    [][(/\ BuyWhileFlat
        /\ ExpectedShares(signals[sigIdx].Price, availableCapital) > 0
        /\ ExpectedCost(signals[sigIdx].Price, availableCapital) <= availableCapital)
          => LET p == signals[sigIdx].Price
                 shares == ExpectedShares(p, availableCapital)
                 entryPrice == p * (RD + engine.config.Slippage)
                 totalCost == shares * entryPrice * RD
                                  + shares * entryPrice * engine.config.TradeFee
                 t == OpenedTrade
             IN  /\ tradeID' = tradeID + 1
                 /\ t.ID = <<"T", tradeID>>
                 /\ t.EntryDate = signals[sigIdx].Date
                 /\ t.EntryPrice = entryPrice
                 /\ t.Quantity = shares
                 /\ t.StopLoss = entryPrice * (RD - engine.strategy.config.StopLoss)
                 /\ t.TakeProfit = entryPrice * (RD + engine.strategy.config.TakeProfit)
                 /\ IF Len(openTrades') > 0
                    THEN /\ openTrades' = <<t>>
                         /\ t.Status = "open"
                         /\ trades' = trades
                         /\ availableCapital' = availableCapital - totalCost
                    ELSE /\ Len(trades') = Len(trades) + 1
                         /\ availableCapital' =
                                availableCapital - totalCost + ExpectedProceeds(t, p)]_vars

\* C18 witness: a BUY has been filled with slippage, so that the stop is not
\* the one the signal price would give, out of a capital that a completed
\* trade has changed.
C18_Witness ==
    /\ SignalProcessed
    /\ LastSignal.Type = "BUY"
    /\ Len(openTrades) = 1
    /\ openTrades[1].EntryDate = LastSignal.Date
    /\ Len(trades) > 0
    /\ engine.config.Slippage > 0
    /\ openTrades[1].StopLoss # LastSignal.Price * RD * (RD - engine.strategy.config.StopLoss)
    /\ availableCapital < engine.config.InitialCapital

\* C19: a BUY signal met while flat whose share count is <= 0 or whose total
\* cost exceeds the capital changes nothing: the slot stays empty, capital,
\* trade list and next trade ID are unchanged, and the loop goes on without
\* an error.
C19_BuyRejected ==
    [][(/\ BuyWhileFlat
        /\ \/ ExpectedShares(signals[sigIdx].Price, availableCapital) <= 0
           \/ ExpectedCost(signals[sigIdx].Price, availableCapital) > availableCapital)
          => /\ openTrades' = << >>
             /\ availableCapital' = availableCapital
             /\ trades' = trades
             /\ tradeID' = tradeID
             /\ pc' = "loop"
             /\ err' = ""
             /\ sigIdx' = sigIdx + 1]_vars

\* C19 witness: a BUY signal was rejected although the share count was
\* positive and there was capital: the total cost exceeded it.
C19_Witness ==
    /\ SignalProcessed
    /\ LastSignal.Type = "BUY"
    /\ openTrades = << >>
    /\ trades = << >>
    /\ tradeID = 1
    /\ availableCapital > 0
    /\ ExpectedShares(LastSignal.Price, availableCapital) > 0
    /\ ExpectedCost(LastSignal.Price, availableCapital) > availableCapital

\* The next step processes a SELL signal.
SellNext ==
    /\ pc = "loop"
    /\ sigIdx <= Len(signals)
    /\ signals[sigIdx].Type = "SELL"

\* C20: a SELL signal met while a position is open closes it at
\* exit = signal price * (1 - Slippage) with fee = shares*exit*TradeFee,
\* proceeds = shares*exit - fee and profitLoss = proceeds - shares*entry;
\* the capital grows by the proceeds, the slot is emptied and exactly this
\* one trade is appended.  A SELL signal met while flat changes neither the
\* capital nor the trade list.
C20_SellClose ==
    [][SellNext =>
          IF Len(openTrades) = 1
          THEN LET o == openTrades[1]
                   exitPrice == signals[sigIdx].Price * (RD - engine.config.Slippage)
                   fee == o.Quantity * exitPrice * engine.config.TradeFee
                   proceeds == o.Quantity * exitPrice * RD - fee
                   t == trades'[Len(trades')]
               IN  /\ availableCapital' = availableCapital + proceeds
                   /\ openTrades' = << >>
                   /\ Len(trades') = Len(trades) + 1
                   /\ SubSeq(trades', 1, Len(trades)) = trades
                   /\ t.ID = o.ID /\ t.Quantity = o.Quantity
                   /\ t.EntryDate = o.EntryDate /\ t.EntryPrice = o.EntryPrice
                   /\ t.ExitPrice = <<exitPrice>>
                   /\ t.ProfitLoss = proceeds - o.Quantity * o.EntryPrice * RD
                   /\ t.Status = "closed"
                   /\ mem'[t.ExitDate] = signals[sigIdx].Date
          ELSE /\ availableCapital' = availableCapital
               /\ trades' = trades
               /\ openTrades' = << >>]_vars

\* C20 witness: a SELL signal has closed a position with a fee, at a price
\* that no stop or target would have closed it at.
C20_Witness ==
    /\ SignalProcessed
    /\ LastSignal.Type = "SELL"
    /\ Len(trades) > 0
    /\ trades[Len(trades)].ExitDate = LoopVarLoc(sigIdx - 1)
    /\ engine.config.TradeFee > 0
    /\ LastSignal.Price * RD2 > trades[Len(trades)].StopLoss
    /\ LastSignal.Price * RD2 < trades[Len(trades)].TakeProfit

-----------------------------------------------------------------------------
(* Properties of the stop-loss / take-profit check *)

\* The next step processes a signal.
SignalNext == pc = "loop" /\ sigIdx <= Len(signals)

\* The step fills the BUY signal it processes.
Fills == signals[sigIdx].Type = "BUY" /\ tradeID' = tradeID + 1

\* Total cost of the entry of trade t, in 1/RD2.
EntryCost(t) ==
    t.Quantity * t.EntryPrice * RD + t.Quantity * t.EntryPrice * engine.config.TradeFee

\* C21: the position that is open after the BUY/SELL branch of a signal (the
\* one just opened, or the earlier one when the signal is a BUY) is closed
\* iff the signal price is <= its stop or >= its target; the close uses the
\* SELL formula on the signal price, appends the trade once and credits the
\* proceeds once; otherwise the position stays and nothing is recorded or
\* credited.  After a SELL branch no position is left, so the position the
\* SELL closed is recorded and credited once only.
C21_StopLossTakeProfit ==
    [][SignalNext =>
          LET signal == signals[sigIdx]
              p == signal.Price
          IN  IF signal.Type = "SELL"
              THEN /\ openTrades' = << >>
                   /\ Len(trades') = Len(trades) + Len(openTrades)
                   /\ availableCapital' =
                         IF Len(openTrades) = 1
                         THEN availableCapital + ExpectedProceeds(openTrades[1], p)
                         ELSE availableCapital
              ELSE IF Len(openTrades) = 0 /\ ~Fills
              THEN openTrades' = << >> /\ trades' = trades
                                       /\ availableCapital' = availableCapital
              ELSE LET held == IF Len(openTrades) = 1 THEN openTrades[1]
                               ELSE [OpenedTrade EXCEPT !.Status = "open",
                                                        !.ExitDate = NilLoc,
                                                        !.ExitPrice = << >>,
                                                        !.ProfitLoss = 0]
                       capital == IF Len(openTrades) = 1 THEN availableCapital
                                  ELSE availableCapital - EntryCost(held)
                   IN  IF p * RD2 <= held.StopLoss \/ p * RD2 >= held.TakeProfit
                       THEN LET t == trades'[Len(trades')]
                            IN  /\ openTrades' = << >>
                                /\ Len(trades') = Len(trades) + 1
                                /\ SubSeq(trades', 1, Len(trades)) = trades
                                /\ t = [held EXCEPT
                                          !.Status = "closed",
                                          !.ExitDate = ParamLoc(sigIdx),
                                          !.ExitPrice = <<ExpectedExitPrice(p)>>,
                                          !.ProfitLoss = ExpectedProceeds(held, p)
                                              - held.Quantity * held.EntryPrice * RD]
                                /\ mem'[t.ExitDate] = signal.Date
                                /\ availableCapital' = capital + ExpectedProceeds(held, p)
                       ELSE /\ openTrades' = <<held>>
                            /\ trades' = trades
                            /\ availableCapital' = capital]_vars

\* C21 witness: the check has closed a position at its take-profit, at a
\* price above the entry price, and credited the capital.
C21_Witness ==
    /\ SignalProcessed
    /\ openTrades = << >>
    /\ Len(trades) > 0
    /\ trades[Len(trades)].ExitDate = ParamLoc(sigIdx - 1)
    /\ LastSignal.Price * RD2 >= trades[Len(trades)].TakeProfit
    /\ trades[Len(trades)].ProfitLoss > 0
    /\ availableCapital > engine.config.InitialCapital

-----------------------------------------------------------------------------
(* Properties of CalculatePositionSize *)

\* floor(n / d) for d > 0
Floor(n, d) == IF n >= 0 THEN n \div d ELSE -((-n + d - 1) \div d)

\* The share count by the sizing rule: capital in 1/RD2, the rates in 1/RD.
\*   floor((capital * positionSize) / (price * stopLoss)), replaced by
\*   floor(capital / price) when that count times the price exceeds the capital.
RuleShares(capital, price, positionSize, stopLoss) ==
    IF price * stopLoss <= 0 THEN 0
    ELSE LET shares == Floor(capital * positionSize, price * stopLoss * RD2)
         IN  IF shares * price * RD2 > capital
             THEN Floor(capital, price * RD2)
             ELSE shares

SizeCalled == calc.op \in {"CalculatePositionSize", "CalculatePositionSizeRounded"}

\* C22: CalculatePositionSize returns the share count of the sizing rule
\* (0 when price * stopLoss <= 0), and for capital >= 0 and price > 0 the
\* count s satisfies s >= 0 and s * price <= capital.
C22_PositionSize ==
    SizeCalled =>
        /\ calc.ret = RuleShares(calc.capital, calc.price, calc.positionSize, calc.stopLoss)
        /\ (calc.capital >= 0 /\ calc.price > 0) =>
              (calc.ret >= 0 /\ calc.ret * calc.price * RD2 <= calc.capital)

-----------------------------------------------------------------------------
(* Properties of calculateMaxDrawdown *)

\* Running capital and peak after the first k trades of ts, replayed in
\* list order from the initial capital.
RunningAfter(ts, k) == engine.config.InitialCapital + SumProfitLoss(SubSeq(ts, 1, k))

PeakAfter(ts, k) ==
    LET levels == {RunningAfter(ts, j) : j \in 0..k}
    IN  CHOOSE x \in levels : \A y \in levels : y <= x

\* (peak - running) / peak * 100 after the first k trades.
DrawdownAfter(ts, k) ==
    Frac((PeakAfter(ts, k) - RunningAfter(ts, k)) * 100, PeakAfter(ts, k))

FracEqual(a, b) == a[1] * b[2] = b[1] * a[2]

\* The exit date a reader of the returned list finds in trade t.
ExitDateOf(t) == mem[t.ExitDate]

-----------------------------------------------------------------------------
(* Properties of the stop and target of an opened position *)

\* Slippage >= 0, 0 < StopLoss < 1, TakeProfit > 0.
RatesInRange ==
    /\ engine.config.Slippage >= 0
    /\ engine.strategy.config.StopLoss > 0
    /\ engine.strategy.config.StopLoss < RD
    /\ engine.strategy.config.TakeProfit > 0

\* C26: with the rates in range, every opened position has
\* stop < entry price < target, and no step closes the position that the BUY
\* signal of that step has opened: a trade appended while a signal is
\* processed was entered at an earlier signal.
C26_StopBelowEntry ==
    /\ [](RatesInRange =>
             \A i \in 1..Len(openTrades) :
                 /\ openTrades[i].StopLoss < openTrades[i].EntryPrice * RD
                 /\ openTrades[i].EntryPrice * RD < openTrades[i].TakeProfit)
    /\ [][(RatesInRange /\ SignalNext) =>
             \A i \in (Len(trades) + 1)..Len(trades') :
                 /\ trades'[i].StopLoss < trades'[i].EntryPrice * RD
                 /\ trades'[i].EntryPrice * RD < trades'[i].TakeProfit
                 /\ trades'[i].EntryDate < signals[sigIdx].Date]_vars

-----------------------------------------------------------------------------
(* Properties of the returned result *)

Returned == pc = "done" /\ result # << >>

IsWin(t) == t.ProfitLoss > 0

IsLoss(t) == t.ProfitLoss < 0

\* Sum of |profitLoss| over the trades of ts.
RECURSIVE SumAbsProfitLoss(_)
SumAbsProfitLoss(ts) ==
    IF Len(ts) = 0 THEN 0
    ELSE Abs(ts[1].ProfitLoss) + SumAbsProfitLoss(Tail(ts))

\* C24: in every BacktestResult TotalTrades = len(Trades), WinningTrades and
\* LosingTrades count the trades with profitLoss > 0 and < 0 (their sum is at
\* most TotalTrades), WinRate = WinningTrades/TotalTrades*100 and 0 without
\* trades, AverageWin is the mean positive profitLoss and AverageLoss the mean
\* absolute negative profitLoss, each 0 when its count is 0.
C24_Statistics ==
    Returned =>
        LET r == result[1]
            ts == r.Trades
            wins == SelectSeq(ts, IsWin)
            losses == SelectSeq(ts, IsLoss)
        IN  /\ r.TotalTrades = Len(ts)
            /\ r.WinningTrades = Len(wins)
            /\ r.LosingTrades = Len(losses)
            /\ r.WinningTrades + r.LosingTrades <= r.TotalTrades
            /\ IF Len(ts) = 0 THEN r.WinRate = Frac(0, 1)
               ELSE FracEqual(r.WinRate, Frac(Len(wins) * 100, Len(ts)))
            /\ IF Len(wins) = 0 THEN r.AverageWin = Frac(0, 1)
               ELSE FracEqual(r.AverageWin, Frac(SumAbsProfitLoss(wins), Len(wins)))
            /\ IF Len(losses) = 0 THEN r.AverageLoss = Frac(0, 1)
               ELSE FracEqual(r.AverageLoss, Frac(SumAbsProfitLoss(losses), Len(losses)))

\* C24 witness: a result with a trade of positive quantity whose profitLoss
\* is zero, so that winning and losing trades together are fewer than all.
C24_Witness ==
    /\ Returned
    /\ \E k \in 1..Len(result[1].Trades) :
          /\ result[1].Trades[k].ProfitLoss = 0
          /\ result[1].Trades[k].Quantity > 0
    /\ result[1].WinningTrades + result[1].LosingTrades < result[1].TotalTrades

\* C27: every position opened in a run is returned once and nothing else is:
\* while the loop runs, the open position and the completed trades together
\* are the trades T1 .. T(tradeID-1) of the fills so far, each once; the
\* returned list has one trade per fill, each with status closed, an exit
\* date and an exit price, and none with status open.
C27_EveryPositionReturned ==
    /\ pc = "loop" =>
          /\ Len(trades) + Len(openTrades) = tradeID - 1
          /\ {t.ID : t \in {trades[i] : i \in 1..Len(trades)}
                        \cup {openTrades[i] : i \in 1..Len(openTrades)}}
                = {<<"T", k>> : k \in 1..(tradeID - 1)}
    /\ Returned =>
          LET ts == result[1].Trades
          IN  /\ Len(ts) = tradeID - 1
              /\ {ts[i].ID : i \in 1..Len(ts)} = {<<"T", k>> : k \in 1..(tradeID - 1)}
              /\ \A i \in 1..Len(ts) :
                    /\ ts[i].Status = "closed"
                    /\ ts[i].ExitDate # NilLoc
                    /\ ts[i].ExitPrice # << >>

\* C27 witness: a returned list of two trades, the first closed by a signal
\* and the second by the block after the loop.
C27_Witness ==
    /\ Returned
    /\ Len(result[1].Trades) = 2
    /\ result[1].Trades[1].ExitDate # LastDateLoc
    /\ result[1].Trades[2].ExitDate = LastDateLoc

RECURSIVE ReconciledCapital(_)
\* The capital of the account after the trades of ts: the initial capital,
\* less the total cost of every entry, plus the proceeds of every close.
ReconciledCapital(ts) ==
    IF Len(ts) = 0 THEN engine.config.InitialCapital
    ELSE LET t == ts[Len(ts)]
             proceeds == t.ProfitLoss + t.Quantity * t.EntryPrice * RD
         IN  ReconciledCapital(SubSeq(ts, 1, Len(ts) - 1)) - EntryCost(t) + proceeds

\* C25: the FinalCapital of a result is the initial capital less the total
\* cost (fee included) of every entry plus the proceeds of every close, the
\* close at the end of the series included.
C25_CapitalReconciled ==
    Returned => result[1].FinalCapital = ReconciledCapital(result[1].Trades)

=============================================================================
